---------------------------- MODULE Spec2Model ----------------------------
(***************************************************************************)
(* Model of the Kafka consumer core of src/kafka/consumer/group.go:        *)
(* the Consumer (Start, Stop, listen and its event handlers,               *)
(* commitOffsets) and the Group supervisor (Start, Stop).                  *)
(*                                                                         *)
(* Goroutines are threads with a program counter.  A thread is a pair      *)
(* <<kind, i>>:                                                            *)
(*   <<"start", i>>   a client goroutine calling Consumer.Start            *)
(*   <<"stop", i>>    a client goroutine calling Consumer.Stop             *)
(*   <<"worker", i>>  the task Group.Start launches for consumer i         *)
(*   <<"gstart", 1>>  the goroutine calling Group.Start                    *)
(*   <<"gstop", i>>   a goroutine calling Group.Stop                       *)
(*   <<"watch", 1>>   the cancellation watcher Group.Start launches        *)
(*   <<"sleep", i>>   a goroutine calling Consumer.Sleep                   *)
(*   <<"timer", i>>   the timer task the i-th Sleep call launches          *)
(*                                                                         *)
(* offset.go, observable.go and checkPartitions are not part of src/; the  *)
(* tracker operators and CheckPartitions follow spec.md 4.1 and 4.5.  The  *)
(* broker (committed-offset store, fetch positions, RPC outcomes) is the   *)
(* environment of the code and is modelled at its call sites.              *)
(***************************************************************************)
EXTENDS Integers, Sequences, FiniteSets, TLC

\* ------------------------------------------------------------------ bounds
NumWorkers == 2
MaxStartCalls == 2
MaxStopCalls == 2
MaxGroupStopCalls == 1
MaxEvents == 3
MaxLifeEvents == 2
MaxGroupEvents == 2
MaxOffset == 2
MaxInitCommitted == 0
CommitThreshold == 2
MaxSleepCalls == 1
MaxSleepEvents == 2
MaxRevokeEvents == 4

\* kafka.OffsetInvalid, the "unset" offset of a partition descriptor
UNSET == -1001

\* The count-flush scenario: commitOffsetCount = 3, messages 10..14
ScenarioThreshold == 3
ScenarioFirst == 10
ScenarioLast == 14

\* --------------------------------------------------------------- constants
PartitionKeys == {<<"T", 0>>, <<"T", 1>>}
KeyOrder == << <<"T", 0>>, <<"T", 1>> >>
EventLists == { << <<"T", 0>> >>, << <<"T", 1>> >>, KeyOrder }

Consumers == 1..NumWorkers
StartClients == {<<"start", i>> : i \in 1..MaxStartCalls}
StopClients == {<<"stop", i>> : i \in 1..MaxStopCalls}
WorkerTasks == {<<"worker", i>> : i \in Consumers}
GStart == <<"gstart", 1>>
GStopCallers == {<<"gstop", i>> : i \in 1..MaxGroupStopCalls}
Sleepers == {<<"sleep", i>> : i \in 1..MaxSleepCalls}
Timers == {<<"timer", i>> : i \in 1..MaxSleepCalls}
Watcher == <<"watch", 1>>
Starters == StartClients \cup WorkerTasks
Threads == Starters \cup StopClients \cup {GStart, Watcher} \cup GStopCallers
           \cup Sleepers \cup Timers
NoThread == <<"none", 0>>

ProcessOutcomes == {"ok", "err", "panic", "stop"}
CommitFailures == {"errCommitRPC", "errCommitPartition"}
EmptyMap == <<>>

VARIABLES
    pc,                 \* thread -> position in its code
    tgt,                \* thread -> the Consumer its Start/Stop call is on
    nested,             \* starter -> <<m>> while OnProcess(m) is inside c.Stop()
    ret,                \* thread -> the value its Start is about to return
    panic,              \* starter -> "none", "unwinding", or "recovered" by Start
    result,             \* starter -> what Start returned ("none" before)
    ctxDone,            \* consumer -> c.ctx is cancelled
    mu,                 \* consumer -> the thread holding c.mu (NoThread)
    wgc,                \* consumer -> counter of c.wg
    notes,              \* consumer -> the states passed to observable.notify
    closeCount,         \* consumer -> number of reader.Close calls
    tracker,            \* consumer -> the offset tracker of listen
    pos,                \* consumer -> assigned partition -> next offset fetched
    left,               \* events and ticks the run still delivers
    commitOffsetCount,  \* cfg.CommitOffsetCount, shared by the consumers
    committed,          \* broker: partition -> committed offset (UNSET)
    lastAssign,         \* consumer -> <<the last reader.Assign call>>
    lastCommit,         \* consumer -> <<the last reader.CommitOffsets call>>
    lastDone,           \* consumer -> partition -> last committed message
    pend,               \* consumer -> partition -> last accepted message
    failed,             \* consumer -> <<the message OnProcess rejected>>
    finalFlush,         \* consumer -> <<the commitOffsets of listen's defer>>
    gctxDone,           \* g.ctx is cancelled
    gwg,                \* counter of g.wg
    retval,             \* the result channel of Group.Start
    gret,               \* what Group.Start returned ("none" before)
    gidx,               \* loop index of Group.Start (launch and deferred Stop)
    gstopped,           \* consumers whose Stop the deferred loop has called
    logEnd,             \* broker: offset of the last message of each partition
    lastRevoke,         \* consumer -> <<the last handleRevoke run>>
    closing,            \* consumer -> the shutdown steps of the Start call in progress
    sent,               \* the first value sent on the result channel
    sleepArg,           \* sleeper or timer -> the partitions of its Sleep call
    sleepRet,           \* sleeper -> what Sleep returned ("none" before)
    sleepLog            \* consumer -> the reader calls of Sleep and its timers

thrVars == <<pc, tgt, nested, ret, panic, result>>
conVars == <<ctxDone, mu, wgc, notes, closeCount>>
loopVars == <<tracker, pos, left, commitOffsetCount, committed>>
histVars == <<lastAssign, lastCommit, lastDone, pend, failed, finalFlush>>
grpVars == <<gctxDone, gwg, retval, gret, gidx, gstopped>>
obsVars == <<lastRevoke, closing, sent>>
sleepVars == <<sleepArg, sleepRet, sleepLog>>
extVars == <<logEnd, obsVars, sleepVars>>
vars == <<thrVars, conVars, loopVars, histVars, grpVars, extVars>>


\* ------------------------------------------------- offset tracker (spec 4.1)
\* A tracker is a map PartitionKey -> [offset, counter]; a PartitionOffset is
\* a record [key, offset, err].
RECURSIVE SumCounters(_, _)
SumCounters(tr, keys) ==
    IF keys = {} THEN 0
    ELSE LET k == CHOOSE x \in keys : TRUE
         IN tr[k].counter + SumCounters(tr, keys \ {k})

OffsetAdd(tr, tp) ==
    [k \in DOMAIN tr \cup {tp.key} |->
        IF k = tp.key
        THEN [offset |-> tp.offset,
              counter |-> (IF k \in DOMAIN tr THEN tr[k].counter ELSE 0) + 1]
        ELSE tr[k]]

OffsetGet(tr) ==
    LET present(k) == k \in DOMAIN tr
        keys == SelectSeq(KeyOrder, present)
    IN [list |-> [i \in DOMAIN keys |->
                    [key |-> keys[i], offset |-> tr[keys[i]].offset, err |-> "nil"]],
        count |-> [k \in DOMAIN tr |-> tr[k].counter]]

OffsetRemove(tr, tp) == [k \in DOMAIN tr \ {tp.key} |-> tr[k]]

OffsetClear(tr) == EmptyMap

OffsetCounter(tr) == SumCounters(tr, DOMAIN tr)

\* checkPartitions (spec 4.5): the first embedded error, or "nil"
CheckPartitions(list) ==
    LET bad == {i \in DOMAIN list : list[i].err # "nil"}
    IN IF bad = {} THEN "nil"
       ELSE list[CHOOSE i \in bad : \A j \in bad : i <= j].err

RECURSIVE RemoveAll(_, _)
RemoveAll(tr, list) ==
    IF list = <<>> THEN tr
    ELSE RemoveAll(OffsetRemove(tr, Head(list)), Tail(list))

KeysOf(list) == {list[i].key : i \in DOMAIN list}

\* --------------------------------------------------------------- the broker
\* The answers reader.CommitOffsets can give for the tracker tr: the RPC
\* fails, or it answers with the same partitions, those in bad carrying an
\* error.
CommitOutcomes(tr) ==
    IF DOMAIN tr = {} THEN {[rpcErr |-> FALSE, bad |-> {}]}
    ELSE {[rpcErr |-> TRUE, bad |-> {}]}
         \cup {[rpcErr |-> FALSE, bad |-> b] : b \in SUBSET (DOMAIN tr)}

\* reader.Committed: the store's offset of each partition asked for
Committed(store, partitions) ==
    [i \in DOMAIN partitions |->
        [key |-> partitions[i], offset |-> store[partitions[i]], err |-> "nil"]]

\* Where the broker starts to fetch a partition assigned at offset o
FetchStart(o) == IF o >= 0 THEN o ELSE 0

\* reader.Assign: the assignment is replaced by the list
Assigned(list) ==
    LET at(k) == CHOOSE i \in DOMAIN list : list[i].key = k
    IN [k \in KeysOf(list) |-> FetchStart(list[at(k)].offset)]

\* ------------------------------------------------------------ commitOffsets
\* Consumer.commitOffsets on tracker tr when the broker answers oc.  The
\* result holds the tracker afterwards, the list sent (<<>>: no RPC), the
\* outcome, the OnCommit calls, whether OnError was called, and the
\* partitions the broker stored.
CommitOffsets(tr, oc) ==
    LET g == OffsetGet(tr)
        list == g.list
        success == [i \in DOMAIN list |->
                      [list[i] EXCEPT !.err = IF list[i].key \in oc.bad
                                              THEN "errCommitPartition" ELSE "nil"]]
    IN IF Len(list) = 0
       THEN [tracker |-> tr, rpc |-> <<>>, outcome |-> "none", fired |-> <<>>,
             onError |-> FALSE, stored |-> {}]
       ELSE IF oc.rpcErr
       THEN [tracker |-> tr, rpc |-> list, outcome |-> "errCommitRPC",
             fired |-> <<>>, onError |-> TRUE, stored |-> {}]
       ELSE IF CheckPartitions(success) # "nil"
       THEN [tracker |-> tr, rpc |-> list, outcome |-> CheckPartitions(success),
             fired |-> <<>>, onError |-> TRUE, stored |-> KeysOf(list) \ oc.bad]
       ELSE [tracker |-> RemoveAll(tr, success), rpc |-> list, outcome |-> "ok",
             fired |-> [i \in DOMAIN success |->
                          [key |-> success[i].key, offset |-> success[i].offset,
                           committed |-> g.count[success[i].key]]],
             onError |-> FALSE, stored |-> KeysOf(list)]

\* The broker's store after the commit r of tracker tr
StoreAfter(store, tr, r) ==
    [k \in DOMAIN store |-> IF k \in r.stored THEN tr[k].offset ELSE store[k]]

\* History of a commit: the record of the call with the last accepted and
\* not yet committed message of each partition (of), and per partition the
\* last message whose commit succeeded with the value that was committed.
CommitRecord(trigger, tr, pnd, r) ==
    [trigger |-> trigger, rpc |-> r.rpc, outcome |-> r.outcome,
     fired |-> r.fired, onError |-> r.onError, kept |-> (r.tracker = tr),
     of |-> pnd]

LastCommitAfter(old, trigger, tr, pnd, r) ==
    IF r.outcome = "none" THEN old ELSE <<CommitRecord(trigger, tr, pnd, r)>>

DoneAfter(done, pnd, tr, r) ==
    IF r.outcome # "ok" THEN done
    ELSE [k \in DOMAIN done \cup DOMAIN tr |->
            IF k \in DOMAIN tr
            THEN [msg |-> pnd[k], value |-> tr[k].offset]
            ELSE done[k]]

PendAfter(pnd, r) == [k \in DOMAIN r.tracker |-> pnd[k]]


\* ----------------------------------------------------------- Consumer.Start
\* c.mu.Lock() of Start; the notify(StateClosed) is deferred before it
StartLock(t) ==
    /\ pc[t] = "start_lock"
    /\ mu[tgt[t]] = NoThread
    /\ mu' = [mu EXCEPT ![tgt[t]] = t]
    /\ pc' = [pc EXCEPT ![t] = "start_check"]
    /\ UNCHANGED <<tgt, nested, ret, panic, result>>
    /\ UNCHANGED <<ctxDone, wgc, notes, closeCount>>
    /\ UNCHANGED <<loopVars, histVars, grpVars>>
    /\ UNCHANGED extVars

\* Mutant of StartCheck: Start goes on to listen without the select on
\* c.ctx.Done()
StartCheckOpen(t) ==
    LET c == tgt[t] IN
    /\ pc[t] = "start_check"
    /\ wgc' = [wgc EXCEPT ![c] = @ + 1]
    /\ notes' = [notes EXCEPT ![c] = Append(@, "Run")]
    /\ pc' = [pc EXCEPT ![t] = "subscribe"]
    /\ UNCHANGED <<tgt, nested, ret, panic, result>>
    /\ UNCHANGED <<ctxDone, mu, closeCount>>
    /\ UNCHANGED <<loopVars, histVars, grpVars, extVars>>

\* c.wg.Add(1), then the select on c.ctx.Done(): "consumer already closed",
\* or notify(StateRun) and on to listen
StartCheck(t) ==
    LET c == tgt[t] IN
    /\ pc[t] = "start_check"
    /\ wgc' = [wgc EXCEPT ![c] = @ + 1]
    /\ IF ctxDone[c]
       THEN /\ ret' = [ret EXCEPT ![t] = "errClosed"]
            /\ pc' = [pc EXCEPT ![t] = "start_unlock"]
            /\ UNCHANGED notes
       ELSE /\ notes' = [notes EXCEPT ![c] = Append(@, "Run")]
            /\ pc' = [pc EXCEPT ![t] = "subscribe"]
            /\ UNCHANGED ret
    /\ UNCHANGED <<tgt, nested, panic, result>>
    /\ UNCHANGED <<ctxDone, mu, closeCount>>
    /\ UNCHANGED <<loopVars, histVars, grpVars>>
    /\ UNCHANGED extVars

\* The deferred functions of Start that run under the lock: recover(),
\* c.wg.Done(), c.ctxCancel(), c.mu.Unlock()
StartUnlock(t) ==
    LET c == tgt[t] IN
    /\ pc[t] = "start_unlock"
    /\ panic' = [panic EXCEPT ![t] = IF @ = "unwinding" THEN "recovered" ELSE @]
    /\ wgc' = [wgc EXCEPT ![c] = @ - 1]
    /\ ctxDone' = [ctxDone EXCEPT ![c] = TRUE]
    /\ mu' = [mu EXCEPT ![c] = NoThread]
    /\ pc' = [pc EXCEPT ![t] = "start_notify"]
    /\ UNCHANGED <<tgt, nested, ret, result>>
    /\ UNCHANGED <<notes, closeCount>>
    /\ UNCHANGED <<loopVars, histVars, grpVars>>
    /\ UNCHANGED extVars

\* The deferred notify(StateClosed), then Start returns; a worker task of
\* the Group goes on to send the result
StartNotify(t) ==
    LET c == tgt[t] IN
    /\ pc[t] = "start_notify"
    /\ notes' = [notes EXCEPT ![c] = Append(@, "Closed")]
    /\ closing' = [closing EXCEPT ![c] = <<>>]
    /\ result' = [result EXCEPT ![t] = ret[t]]
    /\ pc' = [pc EXCEPT ![t] = IF t \in WorkerTasks THEN "worker_send" ELSE "done"]
    /\ UNCHANGED <<tgt, nested, ret, panic>>
    /\ UNCHANGED <<ctxDone, mu, wgc, closeCount>>
    /\ UNCHANGED <<loopVars, histVars, grpVars>>
    /\ UNCHANGED <<logEnd, lastRevoke, sent, sleepVars>>

\* ---------------------------------------------------------- Consumer.listen
\* reader.SubscribeTopics: on failure listen returns before any defer
ListenSubscribe(t) ==
    /\ pc[t] = "subscribe"
    /\ \E ok \in BOOLEAN :
          IF ok
          THEN /\ pc' = [pc EXCEPT ![t] = "loop"]
               /\ UNCHANGED ret
          ELSE /\ pc' = [pc EXCEPT ![t] = "start_unlock"]
               /\ ret' = [ret EXCEPT ![t] = "errSubscribe"]
    /\ UNCHANGED <<tgt, nested, panic, result>>
    /\ UNCHANGED <<conVars, loopVars, histVars, grpVars>>
    /\ UNCHANGED extVars

\* One more iteration of the select loop that takes an event or a tick
LoopReady(t) ==
    /\ pc[t] = "loop"
    /\ left > 0

Spend == left' = left - 1

\* The handler returned err: the loop goes on, or listen returns err
After(t, err) ==
    IF err = "nil"
    THEN UNCHANGED <<pc, ret>>
    ELSE /\ pc' = [pc EXCEPT ![t] = "listen_flush"]
         /\ ret' = [ret EXCEPT ![t] = err]

\* c.commitOffsets on the tracker tr (pnd: the messages behind it), the
\* broker answering oc; with clear, consumerOffsets.Clear() follows
Flush(c, trigger, tr, pnd, oc, clear) ==
    LET r == CommitOffsets(tr, oc) IN
    /\ tracker' = [tracker EXCEPT ![c] =
                     IF clear THEN OffsetClear(r.tracker) ELSE r.tracker]
    /\ pend' = [pend EXCEPT ![c] = IF clear THEN EmptyMap ELSE PendAfter(pnd, r)]
    /\ committed' = StoreAfter(committed, tr, r)
    /\ lastCommit' = [lastCommit EXCEPT ![c] =
                        LastCommitAfter(@, trigger, tr, pnd, r)]
    /\ lastDone' = [lastDone EXCEPT ![c] = DoneAfter(@, pnd, tr, r)]

\* case <-c.ctx.Done(): return nil
LoopCtxDone(t) ==
    /\ pc[t] = "loop"
    /\ ctxDone[tgt[t]]
    /\ pc' = [pc EXCEPT ![t] = "listen_flush"]
    /\ ret' = [ret EXCEPT ![t] = "nil"]
    /\ UNCHANGED <<tgt, nested, panic, result>>
    /\ UNCHANGED <<conVars, loopVars, histVars, grpVars>>
    /\ UNCHANGED extVars

\* Mutant of LoopTick: a failed commit ends the loop with the commit's error
LoopTickFatal(t) ==
    LET c == tgt[t] IN
    /\ LoopReady(t)
    /\ Spend
    /\ \E oc \in CommitOutcomes(tracker[c]) :
          /\ Flush(c, "ticker", tracker[c], pend[c], oc, FALSE)
          /\ After(t, IF CommitOffsets(tracker[c], oc).outcome \in CommitFailures
                      THEN CommitOffsets(tracker[c], oc).outcome ELSE "nil")
    /\ UNCHANGED <<tgt, nested, panic, result>>
    /\ UNCHANGED <<conVars, grpVars>>
    /\ UNCHANGED <<pos, commitOffsetCount, lastAssign, failed, finalFlush>>
    /\ UNCHANGED extVars

\* case <-offsetsTicker.C: c.commitOffsets(consumerOffsets)
LoopTick(t) ==
    LET c == tgt[t] IN
    /\ LoopReady(t)
    /\ Spend
    /\ \E oc \in CommitOutcomes(tracker[c]) :
          Flush(c, "ticker", tracker[c], pend[c], oc, FALSE)
    /\ UNCHANGED <<thrVars, conVars, grpVars>>
    /\ UNCHANGED <<pos, commitOffsetCount, lastAssign, failed, finalFlush>>
    /\ UNCHANGED extVars


\* ----------------------------------------------------------- event handlers
\* An event's partition list; with evErr its first descriptor embeds an error
EventPartitions(parts, evErr) ==
    [i \in DOMAIN parts |->
        [key |-> parts[i], offset |-> UNSET,
         err |-> IF evErr /\ i = 1 THEN "errEventPartition" ELSE "nil"]]

\* Mutant of Reconcile: the committed offsets are assigned as they came
ReconcileNoIncrement(answer) == answer

\* handleRebalance, the loop over committedOffsets: an offset >= 0 is
\* incremented, any other is left as it is
Reconcile(answer) ==
    [i \in DOMAIN answer |->
        IF answer[i].offset >= 0
        THEN [answer[i] EXCEPT !.offset = @ + 1]
        ELSE answer[i]]

\* case kafka.AssignedPartitions: handleRebalance
HandleRebalance(t) ==
    LET c == tgt[t] IN
    /\ LoopReady(t)
    /\ Spend
    /\ \E parts \in EventLists : \E evErr \in BOOLEAN :
       \E rpc \in {"nil", "errCommitted", "errAssign"} :
       \E oc \in CommitOutcomes(tracker[c]) :
          LET r == CommitOffsets(tracker[c], oc)
              store == StoreAfter(committed, tracker[c], r)
              done == DoneAfter(lastDone[c], pend[c], tracker[c], r)
              chk == CheckPartitions(EventPartitions(parts, evErr))
              err == IF chk # "nil" THEN chk ELSE rpc
              answer == Committed(store, parts)
              list == Reconcile(answer)
          IN /\ Flush(c, "rebalance", tracker[c], pend[c], oc, TRUE)
             /\ lastAssign' =
                  IF err \in {"nil", "errAssign"}
                  THEN [lastAssign EXCEPT ![c] =
                          <<[store |-> store, answer |-> answer,
                            list |-> list, done |-> done]>>]
                  ELSE lastAssign
             /\ pos' = IF err = "nil" THEN [pos EXCEPT ![c] = Assigned(list)] ELSE pos
             /\ After(t, err)
    /\ UNCHANGED <<tgt, nested, panic, result>>
    /\ UNCHANGED <<conVars, grpVars>>
    /\ UNCHANGED <<commitOffsetCount, failed, finalFlush>>
    /\ UNCHANGED extVars

\* The calls commitOffsets makes when its result is r, in order
CommitCalls(r) ==
    IF r.outcome = "none" THEN <<>>
    ELSE IF r.outcome = "ok"
    THEN <<"CommitOffsets">> \o [i \in DOMAIN r.fired |-> "OnCommit"]
    ELSE <<"CommitOffsets", "OnError">>

\* The calls of handleRevoke after commitOffsets, in order: Clear, then
\* checkPartitions (chk), Unassign (rpc) and OnRevoke, an error ending the
\* handler with OnError
RevokeCalls(chk, rpc) ==
    <<"Clear">> \o (IF chk # "nil" THEN <<"OnError">>
                    ELSE IF rpc # "nil" THEN <<"Unassign", "OnError">>
                    ELSE <<"Unassign", "OnRevoke">>)

\* Mutant of HandleRevoke: the tracker is cleared without the commit
HandleRevokeNoFlush(t) ==
    LET c == tgt[t] IN
    /\ LoopReady(t)
    /\ Spend
    /\ \E parts \in EventLists : \E evErr \in BOOLEAN :
       \E rpc \in {"nil", "errUnassign"} :
          LET chk == CheckPartitions(EventPartitions(parts, evErr))
              err == IF chk # "nil" THEN chk ELSE rpc
          IN /\ tracker' = [tracker EXCEPT ![c] = OffsetClear(@)]
             /\ pend' = [pend EXCEPT ![c] = EmptyMap]
             /\ UNCHANGED <<committed, lastCommit, lastDone>>
             /\ lastRevoke' = [lastRevoke EXCEPT ![c] =
                                 <<[before |-> tracker[c], rpc |-> <<>>,
                                    outcome |-> "none",
                                    calls |-> RevokeCalls(chk, rpc),
                                    err |-> err, after |-> tracker'[c]]>>]
             /\ pos' = IF err = "nil" THEN [pos EXCEPT ![c] = EmptyMap] ELSE pos
             /\ After(t, err)
    /\ UNCHANGED <<tgt, nested, panic, result>>
    /\ UNCHANGED <<conVars, grpVars>>
    /\ UNCHANGED <<commitOffsetCount, lastAssign, failed, finalFlush>>
    /\ UNCHANGED <<logEnd, closing, sent, sleepVars>>

\* case kafka.RevokedPartitions: handleRevoke
HandleRevoke(t) ==
    LET c == tgt[t] IN
    /\ LoopReady(t)
    /\ Spend
    /\ \E parts \in EventLists : \E evErr \in BOOLEAN :
       \E rpc \in {"nil", "errUnassign"} :
       \E oc \in CommitOutcomes(tracker[c]) :
          LET chk == CheckPartitions(EventPartitions(parts, evErr))
              err == IF chk # "nil" THEN chk ELSE rpc
              r == CommitOffsets(tracker[c], oc)
          IN /\ Flush(c, "revoke", tracker[c], pend[c], oc, TRUE)
             /\ lastRevoke' = [lastRevoke EXCEPT ![c] =
                                 <<[before |-> tracker[c], rpc |-> r.rpc,
                                    outcome |-> r.outcome,
                                    calls |-> CommitCalls(r) \o RevokeCalls(chk, rpc),
                                    err |-> err, after |-> tracker'[c]]>>]
             /\ pos' = IF err = "nil" THEN [pos EXCEPT ![c] = EmptyMap] ELSE pos
             /\ After(t, err)
    /\ UNCHANGED <<tgt, nested, panic, result>>
    /\ UNCHANGED <<conVars, grpVars>>
    /\ UNCHANGED <<commitOffsetCount, lastAssign, failed, finalFlush>>
    /\ UNCHANGED <<logEnd, closing, sent, sleepVars>>

\* Mutant of MessageTopicPartition: the next offset to read is tracked
MessageTopicPartitionNext(m) == [m EXCEPT !.offset = @ + 1]

\* The descriptor handleMessage hands to consumerOffsets.Add: e.TopicPartition
MessageTopicPartition(m) == m

\* Mutant of Accept: the flush waits for the counter to exceed the threshold
AcceptAbove(c, m, oc) ==
    LET tr1 == OffsetAdd(tracker[c], MessageTopicPartition(m))
        pnd1 == [k \in DOMAIN pend[c] \cup {m.key} |->
                    IF k = m.key THEN m.offset ELSE pend[c][k]]
    IN IF commitOffsetCount > 0 /\ OffsetCounter(tr1) > commitOffsetCount
       THEN Flush(c, "count", tr1, pnd1, oc, FALSE)
       ELSE /\ tracker' = [tracker EXCEPT ![c] = tr1]
            /\ pend' = [pend EXCEPT ![c] = pnd1]
            /\ UNCHANGED <<committed, lastCommit, lastDone>>

\* handleMessage after OnProcess returned nil: Add, then the count threshold
Accept(c, m, oc) ==
    LET tr1 == OffsetAdd(tracker[c], MessageTopicPartition(m))
        pnd1 == [k \in DOMAIN pend[c] \cup {m.key} |->
                    IF k = m.key THEN m.offset ELSE pend[c][k]]
    IN IF commitOffsetCount > 0 /\ OffsetCounter(tr1) >= commitOffsetCount
       THEN Flush(c, "count", tr1, pnd1, oc, FALSE)
       ELSE /\ tracker' = [tracker EXCEPT ![c] = tr1]
            /\ pend' = [pend EXCEPT ![c] = pnd1]
            /\ UNCHANGED <<committed, lastCommit, lastDone>>

\* case *kafka.Message: handleMessage.  OnProcess returns nil or an error,
\* panics, or calls c.Stop() on the consumer it runs in.
HandleMessage(t) ==
    LET c == tgt[t] IN
    /\ LoopReady(t)
    /\ Spend
    /\ \E k \in DOMAIN pos[c] : \E tpErr \in {"nil", "errTopicPartition"} :
       \E out \in ProcessOutcomes :
          LET m == [key |-> k, offset |-> pos[c][k], err |-> tpErr] IN
          /\ pos[c][k] <= logEnd
          /\ pos' = [pos EXCEPT ![c][k] = @ + 1]
          /\ IF tpErr # "nil"
             THEN /\ After(t, tpErr)
                  /\ UNCHANGED <<nested, panic, failed>>
                  /\ UNCHANGED <<tracker, pend, committed, lastCommit, lastDone>>
             ELSE IF out = "err"
             THEN /\ After(t, "errProcess")
                  /\ failed' = [failed EXCEPT ![c] =
                                  <<[by |-> t, msg |-> m, before |-> tracker[c]]>>]
                  /\ UNCHANGED <<nested, panic>>
                  /\ UNCHANGED <<tracker, pend, committed, lastCommit, lastDone>>
             ELSE IF out = "panic"
             THEN /\ pc' = [pc EXCEPT ![t] = "listen_flush"]
                  /\ ret' = [ret EXCEPT ![t] = "nil"]
                  /\ panic' = [panic EXCEPT ![t] = "unwinding"]
                  /\ UNCHANGED <<nested, failed>>
                  /\ UNCHANGED <<tracker, pend, committed, lastCommit, lastDone>>
             ELSE IF out = "stop"
             THEN /\ pc' = [pc EXCEPT ![t] = "stop_cancel"]
                  /\ nested' = [nested EXCEPT ![t] = <<m>>]
                  /\ UNCHANGED <<ret, panic, failed>>
                  /\ UNCHANGED <<tracker, pend, committed, lastCommit, lastDone>>
             ELSE /\ \E oc \in CommitOutcomes(
                                   OffsetAdd(tracker[c], MessageTopicPartition(m))) :
                        Accept(c, m, oc)
                  /\ UNCHANGED <<pc, ret, nested, panic, failed>>
    /\ UNCHANGED <<tgt, result>>
    /\ UNCHANGED <<conVars, grpVars>>
    /\ UNCHANGED <<commitOffsetCount, lastAssign, finalFlush>>
    /\ UNCHANGED extVars

\* case kafka.PartitionEOF: handlePartitionEOF; the error code
\* ErrPartitionEOF is tolerated
HandlePartitionEOF(t) ==
    LET c == tgt[t] IN
    /\ LoopReady(t)
    /\ Spend
    /\ \E eErr \in {"nil", "ErrPartitionEOF", "errEOF"} :
       \E oc \in CommitOutcomes(tracker[c]) :
          /\ Flush(c, "eof", tracker[c], pend[c], oc, TRUE)
          /\ After(t, IF eErr = "ErrPartitionEOF" THEN "nil" ELSE eErr)
    /\ UNCHANGED <<tgt, nested, panic, result>>
    /\ UNCHANGED <<conVars, grpVars>>
    /\ UNCHANGED <<pos, commitOffsetCount, lastAssign, failed, finalFlush>>
    /\ UNCHANGED extVars

\* case kafka.OffsetsCommitted: handleOffsetCommitted
HandleOffsetCommitted(t) ==
    LET c == tgt[t] IN
    /\ LoopReady(t)
    /\ Spend
    /\ \E eErr \in {"nil", "errOffsetsCommitted"} :
       \E parts \in EventLists : \E evErr \in BOOLEAN :
          LET chk == CheckPartitions(EventPartitions(parts, evErr))
          IN After(t, IF eErr # "nil" THEN eErr ELSE chk)
    /\ UNCHANGED <<tgt, nested, panic, result>>
    /\ UNCHANGED <<conVars, grpVars, histVars>>
    /\ UNCHANGED <<tracker, pos, commitOffsetCount, committed>>
    /\ UNCHANGED extVars

\* case kafka.Error: logged, OnError is called, the loop goes on
HandleError(t) ==
    /\ LoopReady(t)
    /\ Spend
    /\ UNCHANGED <<thrVars, conVars, grpVars, histVars>>
    /\ UNCHANGED <<tracker, pos, commitOffsetCount, committed>>
    /\ UNCHANGED extVars

\* default: an unknown event is logged, the loop goes on
HandleUnknown(t) ==
    /\ LoopReady(t)
    /\ Spend
    /\ UNCHANGED <<thrVars, conVars, grpVars, histVars>>
    /\ UNCHANGED <<tracker, pos, commitOffsetCount, committed>>
    /\ UNCHANGED extVars

\* ------------------------------------------------- the defers of listen
\* One step of the shutdown and the error it met ("nil": none)
ShutdownStep(op, err) == [op |-> op, err |-> err]

\* Mutant of ListenFlush: listen returns without the deferred commitOffsets
ListenFlushSkipped(t) ==
    LET c == tgt[t] IN
    /\ pc[t] = "listen_flush"
    /\ finalFlush' = [finalFlush EXCEPT ![c] =
                        <<[rpc |-> <<>>, outcome |-> "none", fired |-> <<>>]>>]
    /\ pc' = [pc EXCEPT ![t] = "listen_close"]
    /\ UNCHANGED <<tgt, nested, ret, panic, result>>
    /\ UNCHANGED <<conVars, grpVars, loopVars>>
    /\ UNCHANGED <<lastAssign, lastCommit, lastDone, pend, failed>>
    /\ UNCHANGED extVars

\* defer offsetsTicker.Stop() and defer c.commitOffsets(consumerOffsets)
ListenFlush(t) ==
    LET c == tgt[t] IN
    /\ pc[t] = "listen_flush"
    /\ \E oc \in CommitOutcomes(tracker[c]) :
          LET r == CommitOffsets(tracker[c], oc) IN
          /\ Flush(c, "final", tracker[c], pend[c], oc, FALSE)
          /\ finalFlush' = [finalFlush EXCEPT ![c] =
                              <<[rpc |-> r.rpc, outcome |-> r.outcome,
                                 fired |-> r.fired]>>]
          /\ closing' = [closing EXCEPT ![c] =
                            Append(@, ShutdownStep("Flush", r.outcome))]
    /\ pc' = [pc EXCEPT ![t] = "listen_close"]
    /\ UNCHANGED <<tgt, nested, ret, panic, result>>
    /\ UNCHANGED <<conVars, grpVars>>
    /\ UNCHANGED <<pos, left, commitOffsetCount, lastAssign, failed>>
    /\ UNCHANGED <<logEnd, lastRevoke, sent, sleepVars>>

\* The reader calls of listen's first defer when Unsubscribe and Unassign
\* answer out: Unsubscribe, Unassign if that succeeded, Close
CloseCalls(out) ==
    IF out = "errUnsubscribe"
    THEN <<ShutdownStep("Unsubscribe", out), ShutdownStep("Close", "nil")>>
    ELSE <<ShutdownStep("Unsubscribe", "nil"), ShutdownStep("Unassign", out),
           ShutdownStep("Close", "nil")>>

\* Mutant of ListenClose: a failed Unsubscribe or Unassign ends the defer
\* before reader.Close
ListenCloseGuarded(t) ==
    LET c == tgt[t] IN
    /\ pc[t] = "listen_close"
    /\ \E out \in {"nil", "errUnsubscribe", "errUnassign"} :
          /\ pos' = IF out = "nil" THEN [pos EXCEPT ![c] = EmptyMap] ELSE pos
          /\ closing' = [closing EXCEPT ![c] =
                            IF out = "nil" THEN @ \o CloseCalls(out)
                            ELSE @ \o SubSeq(CloseCalls(out), 1,
                                             Len(CloseCalls(out)) - 1)]
          /\ closeCount' = [closeCount EXCEPT ![c] =
                               IF out = "nil" THEN @ + 1 ELSE @]
    /\ pc' = [pc EXCEPT ![t] = "start_unlock"]
    /\ UNCHANGED <<tgt, nested, ret, panic, result>>
    /\ UNCHANGED <<ctxDone, mu, wgc, notes>>
    /\ UNCHANGED <<tracker, left, commitOffsetCount, committed>>
    /\ UNCHANGED <<histVars, grpVars>>
    /\ UNCHANGED <<logEnd, lastRevoke, sent, sleepVars>>

\* The first defer of listen: Unsubscribe, Unassign if that succeeded, Close
ListenClose(t) ==
    LET c == tgt[t] IN
    /\ pc[t] = "listen_close"
    /\ \E out \in {"nil", "errUnsubscribe", "errUnassign"} :
          /\ pos' = IF out = "nil" THEN [pos EXCEPT ![c] = EmptyMap] ELSE pos
          /\ closing' = [closing EXCEPT ![c] = @ \o CloseCalls(out)]
    /\ closeCount' = [closeCount EXCEPT ![c] = @ + 1]
    /\ pc' = [pc EXCEPT ![t] = "start_unlock"]
    /\ UNCHANGED <<tgt, nested, ret, panic, result>>
    /\ UNCHANGED <<ctxDone, mu, wgc, notes>>
    /\ UNCHANGED <<tracker, left, commitOffsetCount, committed>>
    /\ UNCHANGED <<histVars, grpVars>>
    /\ UNCHANGED <<logEnd, lastRevoke, sent, sleepVars>>


\* ------------------------------------------------------------ Consumer.Stop
\* Mutant of StopCancel: Stop goes for the lock without cancelling c.ctx
StopNoCancel(t) ==
    /\ pc[t] = "stop_cancel"
    /\ pc' = [pc EXCEPT ![t] = "stop_lock"]
    /\ UNCHANGED <<tgt, nested, ret, panic, result>>
    /\ UNCHANGED <<conVars, loopVars, histVars, grpVars>>
    /\ UNCHANGED extVars

\* c.ctxCancel()
StopCancel(t) ==
    /\ pc[t] = "stop_cancel"
    /\ ctxDone' = [ctxDone EXCEPT ![tgt[t]] = TRUE]
    /\ pc' = [pc EXCEPT ![t] = "stop_lock"]
    /\ UNCHANGED <<tgt, nested, ret, panic, result>>
    /\ UNCHANGED <<mu, wgc, notes, closeCount>>
    /\ UNCHANGED <<loopVars, histVars, grpVars>>
    /\ UNCHANGED extVars

\* c.mu.Lock() of Stop
StopLock(t) ==
    /\ pc[t] = "stop_lock"
    /\ mu[tgt[t]] = NoThread
    /\ mu' = [mu EXCEPT ![tgt[t]] = t]
    /\ pc' = [pc EXCEPT ![t] = "stop_wait"]
    /\ UNCHANGED <<tgt, nested, ret, panic, result>>
    /\ UNCHANGED <<ctxDone, wgc, notes, closeCount>>
    /\ UNCHANGED <<loopVars, histVars, grpVars>>
    /\ UNCHANGED extVars

\* Mutant of StopWait: a Stop called by a client returns without the
\* deferred c.mu.Unlock()
StopWaitLocked(t) ==
    /\ pc[t] = "stop_wait"
    /\ wgc[tgt[t]] = 0
    /\ t \in StopClients
    /\ pc' = [pc EXCEPT ![t] = "done"]
    /\ UNCHANGED <<tgt, nested, ret, panic, result>>
    /\ UNCHANGED <<conVars, loopVars, histVars, grpVars, extVars>>

\* c.wg.Wait(), the deferred c.mu.Unlock(), and Stop returns: to the
\* deferred loop of Group.Start, into OnProcess (which returns nil, so that
\* handleMessage goes on), or to a client
StopWait(t) ==
    LET c == tgt[t] IN
    /\ pc[t] = "stop_wait"
    /\ wgc[c] = 0
    /\ mu' = [mu EXCEPT ![c] = NoThread]
    /\ IF t = GStart
       THEN /\ gstopped' = gstopped \cup {c}
            /\ IF c < NumWorkers
               THEN /\ tgt' = [tgt EXCEPT ![t] = c + 1]
                    /\ pc' = [pc EXCEPT ![t] = "stop_cancel"]
                    /\ UNCHANGED gret
               ELSE /\ pc' = [pc EXCEPT ![t] = "done"]
                    /\ gret' = ret[t]
                    /\ UNCHANGED tgt
            /\ UNCHANGED <<nested, gctxDone, gwg, retval, gidx>>
            /\ UNCHANGED <<tracker, pend, committed, lastCommit, lastDone>>
       ELSE IF t \in Starters /\ nested[t] # <<>>
       THEN /\ \E oc \in CommitOutcomes(
                             OffsetAdd(tracker[c], MessageTopicPartition(nested[t][1]))) :
                  Accept(c, nested[t][1], oc)
            /\ nested' = [nested EXCEPT ![t] = <<>>]
            /\ pc' = [pc EXCEPT ![t] = "loop"]
            /\ UNCHANGED <<tgt, grpVars>>
       ELSE /\ pc' = [pc EXCEPT ![t] = "done"]
            /\ UNCHANGED <<tgt, nested, grpVars>>
            /\ UNCHANGED <<tracker, pend, committed, lastCommit, lastDone>>
    /\ UNCHANGED <<ret, panic, result>>
    /\ UNCHANGED <<ctxDone, wgc, notes, closeCount>>
    /\ UNCHANGED <<pos, left, commitOffsetCount, lastAssign, failed, finalFlush>>
    /\ UNCHANGED extVars

\* ----------------------------------------------------------- Consumer.Sleep
\* The timer task the Sleep call of sleeper t launches
TimerOf(t) == <<"timer", t[2]>>

\* One call of the reader made by Sleep call i or by its timer task
SleepOp(op, parts, i) == [op |-> op, parts |-> parts, by |-> i]

\* The metadata probes of the timer task: one per partition, in order
Probes(parts, i) ==
    [j \in DOMAIN parts |-> SleepOp("GetMetadata", <<parts[j]>>, i)]

\* Consumer.Sleep(delay, partitions): nil at once for an empty list;
\* otherwise reader.Pause, whose error is returned, and on success the timer
\* task is launched and nil returned
SleepCall(t) ==
    LET c == tgt[t] IN
    /\ pc[t] = "sleep_call"
    /\ \E parts \in {<<>>} \cup EventLists : \E pauseErr \in {"nil", "errPause"} :
          /\ sleepArg' = [sleepArg EXCEPT ![t] = parts,
                                          ![TimerOf(t)] = IF parts # <<>> /\ pauseErr = "nil"
                                                          THEN parts ELSE @]
          /\ IF parts = <<>>
             THEN /\ sleepRet' = [sleepRet EXCEPT ![t] = "nil"]
                  /\ pc' = [pc EXCEPT ![t] = "done"]
                  /\ UNCHANGED sleepLog
             ELSE /\ sleepLog' = [sleepLog EXCEPT ![c] =
                                    Append(@, SleepOp("Pause", parts, t[2]))]
                  /\ sleepRet' = [sleepRet EXCEPT ![t] = pauseErr]
                  /\ pc' = [pc EXCEPT ![t] = "done",
                                      ![TimerOf(t)] = IF pauseErr = "nil"
                                                      THEN "timer_wait" ELSE @]
    /\ UNCHANGED <<tgt, nested, ret, panic, result>>
    /\ UNCHANGED <<conVars, loopVars, histVars, grpVars>>
    /\ UNCHANGED <<logEnd, obsVars>>

\* Mutant of TimerFire: the timer task goes on to Resume without the select
\* on c.ctx.Done()
TimerFireUnchecked(t) ==
    /\ pc[t] = "timer_wait"
    /\ pc' = [pc EXCEPT ![t] = "timer_resume"]
    /\ UNCHANGED <<tgt, nested, ret, panic, result>>
    /\ UNCHANGED <<conVars, loopVars, histVars, grpVars, extVars>>

\* The timer task once the delay has elapsed, at its select: it ends when
\* c.ctx is cancelled and takes the default branch otherwise
TimerFire(t) ==
    LET c == tgt[t] IN
    /\ pc[t] = "timer_wait"
    /\ pc' = [pc EXCEPT ![t] = IF ctxDone[c] THEN "done" ELSE "timer_resume"]
    /\ UNCHANGED <<tgt, nested, ret, panic, result>>
    /\ UNCHANGED <<conVars, loopVars, histVars, grpVars, extVars>>

\* The default branch: c.reader.Resume(partitions), its error only logged
TimerResume(t) ==
    LET c == tgt[t] IN
    /\ pc[t] = "timer_resume"
    /\ sleepLog' = [sleepLog EXCEPT ![c] =
                       Append(@, SleepOp("Resume", sleepArg[t], t[2]))]
    /\ pc' = [pc EXCEPT ![t] = "timer_probe"]
    /\ UNCHANGED <<tgt, nested, ret, panic, result>>
    /\ UNCHANGED <<conVars, loopVars, histVars, grpVars>>
    /\ UNCHANGED <<logEnd, obsVars, sleepArg, sleepRet>>

\* The number of metadata probes the timer task t has made
Probed(t) ==
    LET made(e) == e.by = t[2] /\ e.op = "GetMetadata"
    IN Len(SelectSeq(sleepLog[tgt[t]], made))

\* One iteration of the loop over partitions: c.reader.GetMetadata, its
\* error only logged; the task ends after the last partition
TimerProbe(t) ==
    LET c == tgt[t]
        j == Probed(t) + 1
    IN /\ pc[t] = "timer_probe"
       /\ sleepLog' = [sleepLog EXCEPT ![c] =
                          Append(@, Probes(sleepArg[t], t[2])[j])]
       /\ pc' = [pc EXCEPT ![t] = IF j = Len(sleepArg[t]) THEN "done"
                                  ELSE "timer_probe"]
       /\ UNCHANGED <<tgt, nested, ret, panic, result>>
       /\ UNCHANGED <<conVars, loopVars, histVars, grpVars>>
       /\ UNCHANGED <<logEnd, obsVars, sleepArg, sleepRet>>

\* -------------------------------------------------------------------- Group
\* errors.Wrap(err, msg) is nil when err is nil
Wrap(err, msg) == IF err = "nil" THEN "nil" ELSE msg

\* Mutant of RetvalCap: a channel with room for the workers' results only
RetvalCapWorkers == NumWorkers

\* make(chan error, g.consumers.Len()+1)
RetvalCap == NumWorkers + 1

\* g.wg.Wait() at the head of Group.Start
GroupStartWait(t) ==
    /\ pc[t] = "gstart_wait"
    /\ gwg = 0
    /\ pc' = [pc EXCEPT ![t] = "gstart_check"]
    /\ UNCHANGED <<tgt, nested, ret, panic, result>>
    /\ UNCHANGED <<conVars, loopVars, histVars, grpVars>>
    /\ UNCHANGED extVars

\* The select on g.ctx.Done(): return errors.Wrap(err, ...) with the nil
\* named result; otherwise the defer is registered, the channel made and the
\* cancellation watcher launched
GroupStartCheck(t) ==
    /\ pc[t] = "gstart_check"
    /\ IF gctxDone
       THEN /\ gret' = Wrap("nil", "errGroupClosed")
            /\ pc' = [pc EXCEPT ![t] = "done"]
            /\ UNCHANGED <<retval, gidx>>
       ELSE /\ pc' = [pc EXCEPT ![t] = "gstart_launch", ![Watcher] = "watch_wait"]
            /\ retval' = <<>>
            /\ gidx' = 1
            /\ UNCHANGED gret
    /\ UNCHANGED <<tgt, nested, ret, panic, result>>
    /\ UNCHANGED <<gctxDone, gwg, gstopped>>
    /\ UNCHANGED <<conVars, loopVars, histVars>>
    /\ UNCHANGED extVars

\* Mutant of WatcherSend: the watcher ends on cancellation without sending
WatcherSilent(t) ==
    /\ pc[t] = "watch_wait"
    /\ gctxDone
    /\ pc' = [pc EXCEPT ![t] = "done"]
    /\ UNCHANGED <<tgt, nested, ret, panic, result>>
    /\ UNCHANGED <<conVars, loopVars, histVars, grpVars, extVars>>

\* go func() { <-g.ctx.Done(); retval <- nil }()
WatcherSend(t) ==
    /\ pc[t] = "watch_wait"
    /\ gctxDone
    /\ Len(retval) < RetvalCap
    /\ retval' = Append(retval, "nil")
    /\ sent' = IF sent = <<>> THEN <<[by |-> t, value |-> "nil"]>> ELSE sent
    /\ pc' = [pc EXCEPT ![t] = "done"]
    /\ UNCHANGED <<tgt, nested, ret, panic, result>>
    /\ UNCHANGED <<gctxDone, gwg, gret, gidx, gstopped>>
    /\ UNCHANGED <<conVars, loopVars, histVars>>
    /\ UNCHANGED <<logEnd, lastRevoke, closing, sleepVars>>

\* One iteration of the launch loop: g.wg.Add(1); go func(worker) {...}
GroupStartLaunch(t) ==
    /\ pc[t] = "gstart_launch"
    /\ gwg' = gwg + 1
    /\ gidx' = gidx + 1
    /\ pc' = [pc EXCEPT ![<<"worker", gidx>>] = "start_lock",
                        ![t] = IF gidx < NumWorkers THEN "gstart_launch"
                               ELSE "gstart_recv"]
    /\ UNCHANGED <<tgt, nested, ret, panic, result>>
    /\ UNCHANGED <<gctxDone, retval, gret, gstopped>>
    /\ UNCHANGED <<conVars, loopVars, histVars>>
    /\ UNCHANGED extVars

\* Mutant of GroupStartRecv: the newest value of the channel is received
GroupStartRecvLast(t) ==
    /\ pc[t] = "gstart_recv"
    /\ Len(retval) > 0
    /\ ret' = [ret EXCEPT ![t] = retval[Len(retval)]]
    /\ retval' = SubSeq(retval, 1, Len(retval) - 1)
    /\ tgt' = [tgt EXCEPT ![t] = 1]
    /\ pc' = [pc EXCEPT ![t] = "stop_cancel"]
    /\ UNCHANGED <<nested, panic, result>>
    /\ UNCHANGED <<gctxDone, gwg, gret, gidx, gstopped>>
    /\ UNCHANGED <<conVars, loopVars, histVars, extVars>>

\* return <-retval: the value is received, then the deferred loop starts to
\* call Stop on each consumer
GroupStartRecv(t) ==
    /\ pc[t] = "gstart_recv"
    /\ Len(retval) > 0
    /\ ret' = [ret EXCEPT ![t] = Head(retval)]
    /\ retval' = Tail(retval)
    /\ tgt' = [tgt EXCEPT ![t] = 1]
    /\ pc' = [pc EXCEPT ![t] = "stop_cancel"]
    /\ UNCHANGED <<nested, panic, result>>
    /\ UNCHANGED <<gctxDone, gwg, gret, gidx, gstopped>>
    /\ UNCHANGED <<conVars, loopVars, histVars>>
    /\ UNCHANGED extVars

\* The worker task: retval <- worker.Start()
WorkerSend(t) ==
    /\ pc[t] = "worker_send"
    /\ Len(retval) < RetvalCap
    /\ retval' = Append(retval, result[t])
    /\ sent' = IF sent = <<>> THEN <<[by |-> t, value |-> result[t]]>>
                ELSE sent
    /\ pc' = [pc EXCEPT ![t] = "worker_done"]
    /\ UNCHANGED <<tgt, nested, ret, panic, result>>
    /\ UNCHANGED <<gctxDone, gwg, gret, gidx, gstopped>>
    /\ UNCHANGED <<conVars, loopVars, histVars>>
    /\ UNCHANGED <<logEnd, lastRevoke, closing, sleepVars>>

\* The worker task: defer g.wg.Done()
WorkerDone(t) ==
    /\ pc[t] = "worker_done"
    /\ gwg' = gwg - 1
    /\ pc' = [pc EXCEPT ![t] = "done"]
    /\ UNCHANGED <<tgt, nested, ret, panic, result>>
    /\ UNCHANGED <<gctxDone, retval, gret, gidx, gstopped>>
    /\ UNCHANGED <<conVars, loopVars, histVars>>
    /\ UNCHANGED extVars

\* Group.Stop: g.ctxCancel()
GroupStopCancel(t) ==
    /\ pc[t] = "gstop_cancel"
    /\ gctxDone' = TRUE
    /\ pc' = [pc EXCEPT ![t] = "gstop_wait"]
    /\ UNCHANGED <<tgt, nested, ret, panic, result>>
    /\ UNCHANGED <<gwg, retval, gret, gidx, gstopped>>
    /\ UNCHANGED <<conVars, loopVars, histVars>>
    /\ UNCHANGED extVars

\* Group.Stop: g.wg.Wait()
GroupStopWait(t) ==
    /\ pc[t] = "gstop_wait"
    /\ gwg = 0
    /\ pc' = [pc EXCEPT ![t] = "done"]
    /\ UNCHANGED <<tgt, nested, ret, panic, result>>
    /\ UNCHANGED <<conVars, loopVars, histVars, grpVars>>
    /\ UNCHANGED extVars

\* ---------------------------------------------------------- specifications
InitShared ==
    /\ nested = [t \in Starters |-> <<>>]
    /\ ret = [t \in Starters \cup {GStart} |-> "nil"]
    /\ panic = [t \in Starters |-> "none"]
    /\ result = [t \in Starters |-> "none"]
    /\ ctxDone = [c \in Consumers |-> FALSE]
    /\ mu = [c \in Consumers |-> NoThread]
    /\ wgc = [c \in Consumers |-> 0]
    /\ notes = [c \in Consumers |-> <<>>]
    /\ closeCount = [c \in Consumers |-> 0]
    /\ tracker = [c \in Consumers |-> EmptyMap]
    /\ pos = [c \in Consumers |-> EmptyMap]
    /\ lastAssign = [c \in Consumers |-> <<>>]
    /\ lastCommit = [c \in Consumers |-> <<>>]
    /\ lastDone = [c \in Consumers |-> EmptyMap]
    /\ pend = [c \in Consumers |-> EmptyMap]
    /\ failed = [c \in Consumers |-> <<>>]
    /\ finalFlush = [c \in Consumers |-> <<>>]
    /\ gctxDone = FALSE
    /\ gwg = 0
    /\ retval = <<>>
    /\ gret = "none"
    /\ gidx = 1
    /\ gstopped = {}
    /\ lastRevoke = [c \in Consumers |-> <<>>]
    /\ closing = [c \in Consumers |-> <<>>]
    /\ sent = <<>>
    /\ sleepArg = [t \in Sleepers \cup Timers |-> <<>>]
    /\ sleepRet = [t \in Sleepers |-> "none"]
    /\ sleepLog = [c \in Consumers |-> <<>>]

\* One Consumer (number 1) as New returns it, one client goroutine calling
\* Start on it and one calling Stop, each at any time
Init ==
    /\ InitShared
    /\ pc = [t \in Threads |->
               IF t = <<"start", 1>> THEN "start_lock"
               ELSE IF t = <<"stop", 1>> THEN "stop_cancel"
               ELSE "off"]
    /\ tgt = [t \in Threads |-> IF t \in WorkerTasks THEN t[2] ELSE 1]
    /\ left = MaxEvents
    /\ logEnd = MaxOffset
    /\ commitOffsetCount \in {0, CommitThreshold}
    /\ committed \in [PartitionKeys -> {UNSET} \cup (0..MaxInitCommitted)]

\* The same Consumer with MaxStartCalls goroutines calling Start and
\* MaxStopCalls calling Stop
InitLife ==
    /\ InitShared
    /\ pc = [t \in Threads |->
               IF t \in StartClients THEN "start_lock"
               ELSE IF t \in StopClients THEN "stop_cancel"
               ELSE "off"]
    /\ tgt = [t \in Threads |-> IF t \in WorkerTasks THEN t[2] ELSE 1]
    /\ left = MaxLifeEvents
    /\ logEnd = MaxOffset
    /\ commitOffsetCount \in {0, CommitThreshold}
    /\ committed \in [PartitionKeys -> {UNSET} \cup (0..MaxInitCommitted)]

ConsumerStep(t) ==
    \/ StartLock(t)
    \/ StartCheck(t)
    \/ ListenSubscribe(t)
    \/ LoopCtxDone(t)
    \/ LoopTick(t)
    \/ HandleRebalance(t)
    \/ HandleRevoke(t)
    \/ HandleMessage(t)
    \/ HandlePartitionEOF(t)
    \/ HandleOffsetCommitted(t)
    \/ HandleError(t)
    \/ HandleUnknown(t)
    \/ ListenFlush(t)
    \/ ListenClose(t)
    \/ StartUnlock(t)
    \/ StartNotify(t)

StopStep(t) ==
    \/ StopCancel(t)
    \/ StopLock(t)
    \/ StopWait(t)

Next ==
    \/ \E t \in StartClients : ConsumerStep(t)
    \/ \E t \in StartClients \cup StopClients : StopStep(t)

Spec == Init /\ [][Next]_vars

SpecLife == InitLife /\ [][Next]_vars


\* A Group of NumWorkers consumers as NewGroup returns it, one goroutine
\* calling Group.Start and MaxGroupStopCalls calling Group.Stop; the count
\* threshold is off and the broker holds no committed offset
InitGroup ==
    /\ InitShared
    /\ pc = [t \in Threads |->
               IF t = GStart THEN "gstart_wait"
               ELSE IF t \in GStopCallers THEN "gstop_cancel"
               ELSE "off"]
    /\ tgt = [t \in Threads |-> IF t \in WorkerTasks THEN t[2] ELSE 1]
    /\ left = MaxGroupEvents
    /\ logEnd = MaxOffset
    /\ commitOffsetCount = 0
    /\ committed = [k \in PartitionKeys |-> UNSET]

GroupStep ==
    \/ GroupStartWait(GStart)
    \/ GroupStartCheck(GStart)
    \/ GroupStartLaunch(GStart)
    \/ GroupStartRecv(GStart)
    \/ WatcherSend(Watcher)
    \/ \E t \in WorkerTasks : WorkerSend(t)
    \/ \E t \in WorkerTasks : WorkerDone(t)
    \/ \E t \in GStopCallers : GroupStopCancel(t)
    \/ \E t \in GStopCallers : GroupStopWait(t)

NextGroup ==
    \/ GroupStep
    \/ \E t \in WorkerTasks : ConsumerStep(t)
    \/ \E t \in WorkerTasks \cup {GStart} : StopStep(t)

SpecGroup == InitGroup /\ [][NextGroup]_vars


\* No handler or broker failure has happened and every callback has
\* returned: no Start call is returning a failure, nothing panicked, no
\* OnProcess is inside c.Stop(), and every commit RPC succeeded
Calm ==
    /\ \A t \in Starters :
          /\ ret[t] \in {"nil", "errClosed"}
          /\ panic[t] = "none"
          /\ nested[t] = <<>>
    /\ \A c \in Consumers :
          /\ lastCommit[c] # <<>> => lastCommit[c][1].outcome = "ok"
          /\ finalFlush[c] # <<>> => finalFlush[c][1].outcome \in {"none", "ok"}

\* The Group when nothing fails, under fair scheduling: every goroutine that
\* can take a step eventually takes one
NextCalm ==
    \/ GroupStep /\ Calm'
    \/ \E t \in WorkerTasks : ConsumerStep(t) /\ Calm'
    \/ \E t \in WorkerTasks \cup {GStart} : StopStep(t) /\ Calm'

FairCalm ==
    /\ WF_vars(GroupStartWait(GStart) /\ Calm')
    /\ WF_vars(GroupStartCheck(GStart) /\ Calm')
    /\ WF_vars(GroupStartLaunch(GStart) /\ Calm')
    /\ WF_vars(GroupStartRecv(GStart) /\ Calm')
    /\ WF_vars(WatcherSend(Watcher) /\ Calm')
    /\ \A t \in WorkerTasks :
          /\ WF_vars(WorkerSend(t) /\ Calm')
          /\ WF_vars(WorkerDone(t) /\ Calm')
          /\ WF_vars(ConsumerStep(t) /\ Calm')
    /\ \A t \in GStopCallers :
          /\ WF_vars(GroupStopCancel(t) /\ Calm')
          /\ WF_vars(GroupStopWait(t) /\ Calm')
    /\ WF_vars(StopStep(GStart) /\ Calm')

SpecCalm == InitGroup /\ [][NextCalm]_vars /\ FairCalm


\* The count-flush scenario: one Consumer with commitOffsetCount = 3 on a
\* topic whose partition 0 holds the messages up to 14 and has 9 as its
\* committed offset; the ticker never fires, OnProcess accepts every
\* message, nothing fails, and only partition 0 is ever assigned
InitCount ==
    /\ InitShared
    /\ pc = [t \in Threads |->
               IF t = <<"start", 1>> THEN "start_lock"
               ELSE IF t = <<"stop", 1>> THEN "stop_cancel"
               ELSE "off"]
    /\ tgt = [t \in Threads |-> IF t \in WorkerTasks THEN t[2] ELSE 1]
    /\ left = (ScenarioLast - ScenarioFirst) + 2
    /\ logEnd = ScenarioLast
    /\ commitOffsetCount = ScenarioThreshold
    /\ committed = [k \in PartitionKeys |->
                      IF k = <<"T", 0>> THEN ScenarioFirst - 1 ELSE UNSET]

OnlyCountFlush ==
    \A c \in Consumers :
        /\ DOMAIN pos[c] \subseteq {<<"T", 0>>}
        /\ lastCommit[c] # <<>> => lastCommit[c][1].trigger \in {"count", "final"}

CountStep(t) ==
    \/ StartLock(t)
    \/ StartCheck(t)
    \/ ListenSubscribe(t)
    \/ LoopCtxDone(t)
    \/ HandleRebalance(t)
    \/ HandleMessage(t)
    \/ ListenFlush(t)
    \/ ListenClose(t)
    \/ StartUnlock(t)
    \/ StartNotify(t)

NextCount ==
    \/ \E t \in StartClients : CountStep(t) /\ Calm' /\ OnlyCountFlush'
    \/ \E t \in StopClients : StopStep(t) /\ Calm' /\ OnlyCountFlush'

SpecCount == InitCount /\ [][NextCount]_vars


\* One Consumer with MaxStartCalls goroutines calling Start and MaxStopCalls
\* calling Stop, whose callbacks return without calling c.Stop() themselves,
\* under fair scheduling: every goroutine that can take a step eventually
\* takes one
CallbacksReturn == \A t \in Starters : nested[t] = <<>>

\* The Consumer of InitLife where the broker holds no committed offset
InitStops ==
    /\ InitLife
    /\ \A k \in PartitionKeys : committed[k] = UNSET

NextStops ==
    \/ \E t \in StartClients : ConsumerStep(t) /\ CallbacksReturn'
    \/ \E t \in StopClients : StopStep(t) /\ CallbacksReturn'

FairStops ==
    /\ \A t \in StartClients : WF_vars(ConsumerStep(t) /\ CallbacksReturn')
    /\ \A t \in StopClients : WF_vars(StopStep(t) /\ CallbacksReturn')

SpecStops == InitStops /\ [][NextStops]_vars /\ FairStops


\* One Consumer with a goroutine calling Start, one calling Stop and
\* MaxSleepCalls calling Sleep, each at any time
InitSleep ==
    /\ InitShared
    /\ pc = [t \in Threads |->
               IF t = <<"start", 1>> THEN "start_lock"
               ELSE IF t = <<"stop", 1>> THEN "stop_cancel"
               ELSE IF t \in Sleepers THEN "sleep_call"
               ELSE "off"]
    /\ tgt = [t \in Threads |-> IF t \in WorkerTasks THEN t[2] ELSE 1]
    /\ left = MaxSleepEvents
    /\ logEnd = MaxOffset
    /\ commitOffsetCount = 0
    /\ committed = [k \in PartitionKeys |-> UNSET]

NextSleep ==
    \/ Next
    \/ \E t \in Sleepers : SleepCall(t)
    \/ \E t \in Timers : TimerFire(t)
    \/ \E t \in Timers : TimerResume(t)
    \/ \E t \in Timers : TimerProbe(t)

SpecSleep == InitSleep /\ [][NextSleep]_vars


\* One Consumer as in Init, with MaxRevokeEvents events of which nothing
\* fails before the first RevokedPartitions event: partitions are assigned,
\* messages accepted below the count threshold, and then revoked
InitRevoke ==
    /\ InitShared
    /\ pc = [t \in Threads |->
               IF t = <<"start", 1>> THEN "start_lock"
               ELSE IF t = <<"stop", 1>> THEN "stop_cancel"
               ELSE "off"]
    /\ tgt = [t \in Threads |-> IF t \in WorkerTasks THEN t[2] ELSE 1]
    /\ left = MaxRevokeEvents
    /\ logEnd = MaxOffset
    /\ commitOffsetCount \in {0, ScenarioThreshold}
    /\ committed \in [PartitionKeys -> {UNSET} \cup (0..MaxInitCommitted)]

CalmUntilRevoke == (\A c \in Consumers : lastRevoke[c] = <<>>) => Calm

RevokeStep(t) ==
    \/ StartLock(t)
    \/ StartCheck(t)
    \/ ListenSubscribe(t)
    \/ LoopCtxDone(t)
    \/ HandleRebalance(t)
    \/ HandleMessage(t)
    \/ HandleRevoke(t)
    \/ ListenFlush(t)
    \/ ListenClose(t)
    \/ StartUnlock(t)
    \/ StartNotify(t)

NextRevoke ==
    \/ \E t \in StartClients : RevokeStep(t) /\ CalmUntilRevoke'
    \/ \E t \in StopClients : StopStep(t) /\ CalmUntilRevoke'

SpecRevoke == InitRevoke /\ [][NextRevoke]_vars


\* ------------------------------------------------------------------ claims
Count(seq, x) == Cardinality({i \in DOMAIN seq : seq[i] = x})

\* The positions of a Start call between the ctx check and the end of
\* listen's defers, a Stop called from OnProcess included
ListenPcs == {"subscribe", "loop", "listen_flush", "listen_close",
              "stop_cancel", "stop_lock", "stop_wait"}

Returned(t) == pc[t] \in {"done", "worker_send", "worker_done"}

\* C1: on every Consumer, whatever the Start and Stop calls and their
\* interleaving, StateClosed is notified at most once, and only after
\* StateRun has been notified.
C1_ClosedOnceAfterRun ==
    \A c \in Consumers :
        /\ Count(notes[c], "Closed") <= 1
        /\ \A i \in DOMAIN notes[c] :
              notes[c][i] = "Closed" => \E j \in 1..(i - 1) : notes[c][j] = "Run"

\* C2: a Stop called from OnProcess on the event-loop goroutine never waits
\* for the lock that the goroutine's own Start holds.
C2_StopInCallbackReturns ==
    \A t \in Starters :
        ~(nested[t] # <<>> /\ pc[t] = "stop_lock" /\ mu[tgt[t]] = t)

\* C3: once a Stop called from a client goroutine has returned, the context
\* is cancelled and no Start call on that Consumer is inside listen, now or
\* later: no event is dispatched, no callback runs and no commit is issued
\* by the loop after Stop has returned.
C3_StopJoinsLoop ==
    \A x \in StopClients :
        pc[x] = "done" =>
            /\ ctxDone[tgt[x]]
            /\ \A t \in Starters : tgt[t] = tgt[x] => pc[t] \notin ListenPcs

\* C3 witness: Stop has returned on a Consumer whose loop had run and whose
\* reader is closed, while another Start call is still to come.
C3_Witness ==
    \E x \in StopClients : \E t \in StartClients :
        /\ pc[x] = "done"
        /\ Count(notes[tgt[x]], "Run") = 1
        /\ closeCount[tgt[x]] = 1
        /\ pc[t] = "start_lock"

\* C4: the list handed to reader.Assign is the broker's Committed() answer
\* for the event's partitions with every offset >= 0 incremented by one and
\* every negative offset unchanged; no partition with a committed offset
\* >= 0 on the broker is assigned at UNSET.
C4_AssignReconciled ==
    \A c \in Consumers :
        lastAssign[c] # <<>> =>
            LET a == lastAssign[c][1] IN
            /\ Len(a.list) = Len(a.answer)
            /\ \A i \in DOMAIN a.answer :
                  /\ a.list[i].key = a.answer[i].key
                  /\ a.answer[i].offset = a.store[a.answer[i].key]
                  /\ a.answer[i].offset >= 0 =>
                        a.list[i].offset = a.answer[i].offset + 1
                  /\ a.answer[i].offset < 0 =>
                        a.list[i].offset = a.answer[i].offset
                  /\ a.store[a.list[i].key] >= 0 => a.list[i].offset # UNSET

\* C4 witness: an Assign of two partitions, one committed on the broker and
\* assigned one higher, one without committed offset and assigned at UNSET.
C4_Witness ==
    \E c \in Consumers :
        /\ lastAssign[c] # <<>>
        /\ \E i, j \in DOMAIN lastAssign[c][1].answer :
              /\ lastAssign[c][1].answer[i].offset >= 0
              /\ lastAssign[c][1].list[i].offset = lastAssign[c][1].answer[i].offset + 1
              /\ lastAssign[c][1].answer[j].offset = UNSET
              /\ lastAssign[c][1].list[j].offset = UNSET

\* C5: when a partition is assigned again and the broker answers with the
\* value this Consumer last committed successfully for it, the offset handed
\* to Assign is at most one above the last accepted and committed message.
C5_NoSkipOnReassign ==
    \A c \in Consumers :
        lastAssign[c] # <<>> =>
            LET a == lastAssign[c][1] IN
            \A i \in DOMAIN a.list :
                (/\ a.list[i].key \in DOMAIN a.done
                 /\ a.answer[i].offset = a.done[a.list[i].key].value)
                    => a.list[i].offset <= a.done[a.list[i].key].msg + 1

\* C5 witness: a partition whose message m was accepted and committed is
\* assigned again at m + 1.
C5_Witness ==
    \E c \in Consumers :
        /\ lastAssign[c] # <<>>
        /\ \E i \in DOMAIN lastAssign[c][1].list :
              LET a == lastAssign[c][1]
                  k == a.list[i].key
              IN /\ k \in DOMAIN a.done
                 /\ a.answer[i].offset = a.done[k].value
                 /\ a.done[k].msg >= 0
                 /\ a.list[i].offset = a.done[k].msg + 1


\* C6: when OnProcess returns an error the loop ends and Start returns that
\* error; the rejected message is not added to the tracker, so the final
\* flush sends exactly the offsets accepted before it (never the rejected
\* one), OnCommit fires for those only, and StateClosed is notified.
C6_HandlerFailure ==
    \A c \in Consumers :
        failed[c] # <<>> =>
            LET f == failed[c][1]
                g == OffsetGet(f.before)
            IN /\ pc[f.by] # "loop"
               /\ ret[f.by] = "errProcess"
               /\ finalFlush[c] # <<>> =>
                     LET ff == finalFlush[c][1] IN
                     /\ ff.rpc = g.list
                     /\ \A i \in DOMAIN ff.rpc :
                           ~(/\ ff.rpc[i].key = f.msg.key
                             /\ ff.rpc[i].offset = f.msg.offset)
                     /\ ff.outcome = "ok" =>
                           /\ tracker[c] = EmptyMap
                           /\ ff.fired =
                                [i \in DOMAIN g.list |->
                                   [key |-> g.list[i].key,
                                    offset |-> g.list[i].offset,
                                    committed |-> g.count[g.list[i].key]]]
               /\ Returned(f.by) =>
                     /\ result[f.by] = "errProcess"
                     /\ finalFlush[c] # <<>>
                     /\ closeCount[c] = 1
                     /\ notes[c][Len(notes[c])] = "Closed"

\* C6 witness: OnProcess rejected the second message of a partition, Start
\* has returned and the final flush committed the first message's offset.
C6_Witness ==
    \E c \in Consumers :
        /\ failed[c] # <<>>
        /\ Returned(failed[c][1].by)
        /\ finalFlush[c] # <<>>
        /\ finalFlush[c][1].outcome = "ok"
        /\ Len(finalFlush[c][1].fired) = 1
        /\ finalFlush[c][1].fired[1].key = failed[c][1].msg.key
        /\ finalFlush[c][1].fired[1].offset = failed[c][1].msg.offset - 1

\* A commit RPC failed in this step of consumer c
CommitFailedNow(c) ==
    /\ lastCommit'[c] # lastCommit[c]
    /\ lastCommit'[c] # <<>>
    /\ lastCommit'[c][1].outcome \in CommitFailures

C8_PanicSurfaced ==
    \A t \in Starters :
        (Returned(t) /\ panic[t] = "recovered") => result[t] # "nil"

\* C9: once Group.Start has returned and every worker task has ended, each
\* consumer's reader has been closed exactly once.
C9_EveryReaderClosedOnce ==
    (pc[GStart] = "done" /\ \A w \in WorkerTasks : pc[w] = "done")
        => \A c \in Consumers : closeCount[c] = 1

\* C10: when Group.Start returns, on any path, Consumer.Stop has been called
\* on every Consumer of the Group.
C10_AllStoppedBeforeReturn ==
    pc[GStart] = "done" => gstopped = Consumers

\* C11: once a Group.Stop call has returned, no worker task of the Group is
\* running and none is launched afterwards, whatever the interleaving with
\* Group.Start.
C11_StopJoinsWorkers ==
    \A s \in GStopCallers :
        pc[s] = "done" =>
            /\ pc[GStart] # "gstart_launch"
            /\ \A w \in WorkerTasks : pc[w] \in {"off", "done"}

\* Group.Stop has been called while Group.Start is running
GroupStopCalled ==
    /\ \E s \in GStopCallers : pc[s] # "gstop_cancel"
    /\ pc[GStart] \in {"gstart_launch", "gstart_recv"}

\* Every worker has notified StateClosed and holds no uncommitted offset,
\* Group.Start has returned nil and every Group.Stop call has returned
GroupShutDown ==
    /\ \A c \in Consumers :
          /\ Count(notes[c], "Closed") >= 1
          /\ tracker[c] = EmptyMap
    /\ \A w \in WorkerTasks : pc[w] = "done"
    /\ pc[GStart] = "done"
    /\ gret = "nil"
    /\ \A s \in GStopCallers : pc[s] = "done"

\* C12: with no handler or broker failure, callbacks that return and fair
\* scheduling, a Group.Stop called while Group.Start is running leads to
\* every worker having notified StateClosed with an empty tracker,
\* Group.Start having returned nil and Group.Stop having returned.
C12_GracefulShutdown == GroupStopCalled ~> GroupShutDown

\* C12 witness: the Group has shut down after Group.Stop, and a worker's
\* final flush committed an offset that was still in its tracker.
C12_Witness ==
    /\ GroupShutDown
    /\ \E s \in GStopCallers : pc[s] = "done"
    /\ \E c \in Consumers :
          /\ finalFlush[c] # <<>>
          /\ finalFlush[c][1].outcome = "ok"
          /\ notes[c] = <<"Run", "Closed">>

\* The value Group.Start has received from the result channel
Received == IF pc[GStart] = "done" THEN gret ELSE ret[GStart]

\* C13: once Group.Start has received from the result channel, the value it
\* returns is the first value that was sent on the channel: the result of a
\* worker's Consumer.Start, or the nil the watcher sends after the group's
\* cancellation; values sent later never change it.
C13_FirstResultReturned ==
    (pc[GStart] \in {"stop_cancel", "stop_lock", "stop_wait", "done"} /\ sent # <<>>)
        => /\ Received = sent[1].value
           /\ \/ sent[1].by = Watcher /\ gctxDone /\ Received = "nil"
              \/ sent[1].by \in WorkerTasks /\ Received = result[sent[1].by]

\* C13 witness: Group.Start has returned the error of the worker that sent
\* first, and a different value, sent after it, is left in the channel.
C13_Witness ==
    /\ pc[GStart] = "done"
    /\ sent # <<>>
    /\ sent[1].by \in WorkerTasks
    /\ gret = sent[1].value
    /\ gret # "nil"
    /\ retval # <<>>
    /\ retval[1] # gret

\* The offset of the last message of partition k that OnProcess accepted in
\* consumer c (the scenario's first offset less one when there is none)
LastAccepted(c, k) ==
    IF k \in DOMAIN pend[c] THEN pend[c][k]
    ELSE IF k \in DOMAIN lastDone[c] THEN lastDone[c][k].msg
    ELSE ScenarioFirst - 1

\* The count-based flush of the scenario, where the commit after the third
\* message carries offset atThird and the final commit after all five
\* messages carries offset atFinal: no commit before the third message; the
\* commit of the count threshold is issued with the third message, carries
\* atThird for partition 0 alone and fires OnCommit once with
\* committed-count 3; the fourth and the fifth message are tracked without a
\* commit; the final commit after the fifth message carries atFinal.
CountFlush(atThird, atFinal) ==
    LET c == 1
        k == <<"T", 0>>
        n == LastAccepted(c, k) - (ScenarioFirst - 1)
        byCount == [trigger |-> "count",
                    rpc |-> <<[key |-> k, offset |-> atThird, err |-> "nil"]>>,
                    outcome |-> "ok",
                    fired |-> <<[key |-> k, offset |-> atThird, committed |-> 3]>>,
                    onError |-> FALSE, kept |-> FALSE,
                    of |-> (k :> ScenarioFirst + 2)]
    IN /\ (n < 3 /\ finalFlush[c] = <<>>) => lastCommit[c] = <<>>
       /\ (n >= 3 /\ finalFlush[c] = <<>>) =>
             /\ lastCommit[c] = <<byCount>>
             /\ OffsetCounter(tracker[c]) = n - 3
       /\ (n = 5 /\ finalFlush[c] # <<>>) =>
             /\ finalFlush[c][1].rpc = <<[key |-> k, offset |-> atFinal, err |-> "nil"]>>
             /\ finalFlush[c][1].outcome = "ok"
             /\ tracker[c] = EmptyMap

\* C14 as claimed: the commit after the 3rd message contains offset 13 and
\* the final commit after Stop contains offset 15.
C14_CountFlushNextToRead == CountFlush(ScenarioFirst + 3, ScenarioLast + 1)

\* C14 amended: with commitOffsetCount = 3 and no tick, five accepted
\* messages 10..14 of one partition give one commit with the 3rd message,
\* containing that message's offset 12, OnCommit once with committed-count
\* 3, no commit with the 4th or 5th message, and a final commit containing
\* offset 14.
C14_CountFlushVerbatim == CountFlush(ScenarioFirst + 2, ScenarioLast)

\* C14 witness: all five messages were accepted, Start has returned after
\* Stop and the final commit carried offset 14.
C14_Witness ==
    /\ Returned(<<"start", 1>>)
    /\ pc[<<"stop", 1>>] = "done"
    /\ LastAccepted(1, <<"T", 0>>) = ScenarioLast
    /\ finalFlush[1] # <<>>
    /\ finalFlush[1][1].outcome = "ok"
    /\ Len(finalFlush[1][1].rpc) = 1
    /\ finalFlush[1][1].rpc[1].offset = ScenarioLast
    /\ lastDone[1][<<"T", 0>>].msg = ScenarioLast

\* What the reader of consumer c has been asked to do so far
ReaderState(c) ==
    <<closeCount[c], tracker[c], pos[c], committed, lastAssign[c],
      lastCommit[c], lastRevoke[c], finalFlush[c], lastDone[c]>>

\* C15: c.ctx is cancelled once any Start call has returned or Stop has been
\* called, and stays cancelled; a Start call that takes the lock after that
\* returns "consumer already closed" and makes no reader call on its way
\* out; no two Start calls are inside listen at the same time.
C15_ClosedStaysClosed ==
    [][\A t \in StartClients :
          LET c == tgt[t] IN
          /\ ctxDone[c] => ctxDone'[c]
          /\ Returned(t) => ctxDone[c]
          /\ \A x \in StopClients :
                (tgt[x] = c /\ pc[x] # "stop_cancel") => ctxDone[c]
          /\ (/\ ctxDone[c]
              /\ pc[t] \in {"start_lock", "start_check"}
              /\ pc'[t] \notin {"start_lock", "start_check"})
                => (pc'[t] = "start_unlock" /\ ret'[t] = "errClosed")
          /\ (/\ pc[t] \in {"start_check", "start_unlock", "start_notify"}
              /\ pc'[t] # pc[t]
              /\ ret'[t] = "errClosed")
                => (/\ ReaderState(c)' = ReaderState(c)
                    /\ pc'[t] = "done" => result'[t] = "errClosed")
          /\ Cardinality({u \in StartClients :
                            tgt[u] = c /\ pc'[u] \in ListenPcs}) <= 1]_vars

\* C15 witness: a Start call has run the loop and returned, no Stop was
\* called, and a later Start call has returned "consumer already closed"
\* with the reader closed once.
C15_Witness ==
    \E t1, t2 \in StartClients :
        /\ pc[t1] = "done"
        /\ result[t1] # "errClosed"
        /\ pc[t2] = "done"
        /\ result[t2] = "errClosed"
        /\ \A x \in StopClients : pc[x] = "stop_cancel"
        /\ closeCount[tgt[t2]] = 1
        /\ Count(notes[tgt[t2]], "Run") = 1

\* C16: Stop calls racing each other and Start all return (no deadlock),
\* each only after the event loop has ended; once one Stop has returned,
\* another Stop changes nothing but the lock it takes and releases, and it
\* never has to wait for the loop: the lock is free or held by a call that
\* is about to release it (a late Start, or one more Stop), and the join
\* barrier is at zero.
C16_StopIdempotent ==
    /\ \A x \in StopClients : <>(pc[x] = "done")
    /\ [](\A x \in StopClients :
            pc[x] = "done" =>
                \A t \in StartClients : tgt[t] = tgt[x] => pc[t] \notin ListenPcs)
    /\ [](\A x, y \in StopClients :
            (x # y /\ tgt[x] = tgt[y] /\ pc[y] = "done") =>
                /\ pc[x] = "stop_wait" => wgc[tgt[x]] = 0
                /\ (pc[x] = "stop_lock" /\ mu[tgt[x]] # NoThread) =>
                      pc[mu[tgt[x]]] \in {"start_check", "start_unlock",
                                          "stop_wait"})
    /\ [][\A x, y \in StopClients :
            (x # y /\ tgt[x] = tgt[y] /\ pc[y] = "done" /\ pc'[x] # pc[x]) =>
                UNCHANGED <<ctxDone, wgc, notes, closeCount, thrVars[2],
                            loopVars, histVars, grpVars, extVars>>]_vars

\* C16 witness: both Stop calls have returned after racing a Start call
\* that ran the loop, and the reader was closed once.
C16_Witness ==
    /\ \A x \in StopClients : pc[x] = "done"
    /\ \E t \in StartClients :
          /\ pc[t] = "done"
          /\ result[t] = "nil"
          /\ notes[tgt[t]] = <<"Run", "Closed">>
          /\ closeCount[tgt[t]] = 1

\* The reader calls of Sleep call i and of its timer task, in order
SleepCalls(c, i) ==
    LET mine(e) == e.by = i IN SelectSeq(sleepLog[c], mine)

\* C17: Sleep with an empty list returns nil, makes no reader call and
\* launches no task; with a non-empty list Pause has been called when Sleep
\* returns; a failed Pause is returned and no task is launched; after a
\* successful Pause the timer task, once the delay has elapsed, issues one
\* Resume for the same partitions followed by one metadata probe per
\* partition, unless it finds c.ctx cancelled, and then it issues nothing.
C17_SleepPauseResume ==
    /\ [](\A s \in Sleepers :
            LET c == tgt[s]
                i == s[2]
                tm == TimerOf(s)
                parts == sleepArg[s]
                pause == SleepOp("Pause", parts, i)
                after == <<SleepOp("Resume", parts, i)>> \o Probes(parts, i)
                calls == SleepCalls(c, i)
            IN /\ pc[s] = "sleep_call" => (calls = <<>> /\ pc[tm] = "off")
               /\ (pc[s] = "done" /\ parts = <<>>) =>
                     /\ sleepRet[s] = "nil"
                     /\ calls = <<>>
                     /\ pc[tm] = "off"
               /\ (pc[s] = "done" /\ parts # <<>>) =>
                     /\ calls # <<>>
                     /\ calls[1] = pause
                     /\ sleepRet[s] \in {"nil", "errPause"}
                     /\ sleepRet[s] = "errPause" =>
                           (calls = <<pause>> /\ pc[tm] = "off")
                     /\ sleepRet[s] = "nil" =>
                           /\ pc[tm] \in {"timer_wait", "timer_resume",
                                          "timer_probe", "done"}
                           /\ sleepArg[tm] = parts
                           /\ pc[tm] \in {"timer_wait", "timer_resume"} =>
                                 calls = <<pause>>
                           /\ pc[tm] = "timer_probe" =>
                                 /\ Len(calls) \in 2..(Len(parts) + 1)
                                 /\ calls = SubSeq(<<pause>> \o after, 1, Len(calls))
                           /\ pc[tm] = "done" =>
                                 \/ calls = <<pause>> \o after
                                 \/ calls = <<pause>> /\ ctxDone[c])
    /\ [][\A tm \in Timers :
            /\ (pc[tm] = "timer_wait" /\ pc'[tm] = "done") => ctxDone[tgt[tm]]
            /\ (pc[tm] = "timer_wait" /\ pc'[tm] = "timer_resume") =>
                  ~ctxDone[tgt[tm]]
            /\ (pc[tm] = "timer_wait" /\ pc'[tm] # pc[tm]) =>
                  sleepLog' = sleepLog]_vars

\* C17 witness: a Sleep on two partitions has paused them and its timer
\* task has resumed them and probed each while the loop was running.
C17_Witness ==
    \E s \in Sleepers :
        /\ pc[s] = "done"
        /\ Len(sleepArg[s]) = 2
        /\ pc[TimerOf(s)] = "done"
        /\ Len(SleepCalls(tgt[s], s[2])) = 4
        /\ SleepCalls(tgt[s], s[2])[2].op = "Resume"
        /\ SleepCalls(tgt[s], s[2])[4].op = "GetMetadata"
        /\ pc[<<"start", 1>>] = "loop"

\* The names of the steps in a shutdown log
StepNames(log) == [i \in DOMAIN log |-> log[i].op]

\* The steps of a shutdown whose Unsubscribe answered err, up to Close
StepsToClose(err) ==
    IF err = "nil" THEN <<"Flush", "Unsubscribe", "Unassign", "Close">>
    ELSE <<"Flush", "Unsubscribe", "Close">>

\* C18: a Start call that leaves the loop after a successful SubscribeTopics
\* (cancelled, handler or broker error, or panic) runs the final flush,
\* then Unsubscribe, then Unassign only if Unsubscribe succeeded, then
\* reader.Close, then notifies StateClosed, whether or not the final commit,
\* Unsubscribe or Unassign failed.
C18_ShutdownOrder ==
    \A t \in StartClients :
        LET c == tgt[t]
            log == closing[c]
            ran == ret[t] \notin {"errClosed", "errSubscribe"}
        IN /\ pc[t] \in {"subscribe", "loop"} => log = <<>>
           /\ pc[t] = "listen_close" => StepNames(log) = <<"Flush">>
           /\ (pc[t] \in {"start_unlock", "start_notify"} /\ ran) =>
                 /\ Len(log) >= 3
                 /\ log[2].op = "Unsubscribe"
                 /\ StepNames(log) = StepsToClose(log[2].err)
                 /\ closeCount[c] = 1
           /\ (pc[t] = "done" /\ ran) =>
                 /\ closeCount[c] = 1
                 /\ notes[c][Len(notes[c])] = "Closed"

\* C18 witness: Start is about to notify StateClosed and return a handler's
\* error after a shutdown whose final commit and whose Unsubscribe both
\* failed; the reader was closed all the same.
C18_Witness ==
    \E t \in StartClients :
        /\ pc[t] = "start_notify"
        /\ ret[t] = "errProcess"
        /\ Len(closing[tgt[t]]) = 3
        /\ closing[tgt[t]][1].err \in CommitFailures
        /\ closing[tgt[t]][2].err = "errUnsubscribe"
        /\ closing[tgt[t]][3].op = "Close"
        /\ closeCount[tgt[t]] = 1

\* The places of a call in a sequence of calls
Places(calls, name) == {i \in DOMAIN calls : calls[i] = name}

\* C19: when a RevokedPartitions event finds offsets in the tracker, the
\* handler issues a commit RPC with the tracked offset of every tracked
\* partition before any reader.Unassign; the tracker is empty when the
\* handler returns; OnRevoke is called only right after an Unassign that
\* succeeded.
C19_RevokeFlushesFirst ==
    \A c \in Consumers :
        lastRevoke[c] # <<>> =>
            LET v == lastRevoke[c][1] IN
            /\ v.before # EmptyMap =>
                  /\ v.rpc = OffsetGet(v.before).list
                  /\ KeysOf(v.rpc) = DOMAIN v.before
                  /\ \A i \in DOMAIN v.rpc :
                        v.rpc[i].offset = v.before[v.rpc[i].key].offset
                  /\ Places(v.calls, "CommitOffsets") = {1}
                  /\ \A j \in Places(v.calls, "Unassign") : j > 1
            /\ v.after = EmptyMap
            /\ OffsetCounter(v.after) = 0
            /\ \A j \in Places(v.calls, "OnRevoke") :
                  /\ j > 1
                  /\ v.calls[j - 1] = "Unassign"
                  /\ v.err = "nil"
            /\ v.err = "errUnassign" => Places(v.calls, "OnRevoke") = {}

\* C19 witness: two messages on two partitions were tracked below the count
\* threshold when the partitions were revoked; both offsets were committed,
\* then Unassign and OnRevoke were called.
C19_Witness ==
    \E c \in Consumers :
        /\ lastRevoke[c] # <<>>
        /\ commitOffsetCount = ScenarioThreshold
        /\ DOMAIN lastRevoke[c][1].before = PartitionKeys
        /\ Len(lastRevoke[c][1].rpc) = 2
        /\ lastRevoke[c][1].calls =
              <<"CommitOffsets", "OnCommit", "OnCommit", "Clear", "Unassign", "OnRevoke">>

\* C20: every commit RPC carries, for exactly the partitions with a message
\* accepted since the last successful commit or clear of the tracker, the
\* offset of the most recent of those messages as it came, nothing added.
C20_CommitCarriesLastAccepted ==
    \A c \in Consumers :
        lastCommit[c] # <<>> =>
            LET v == lastCommit[c][1] IN
            /\ v.rpc # <<>>
            /\ KeysOf(v.rpc) = DOMAIN v.of
            /\ Len(v.rpc) = Cardinality(DOMAIN v.of)
            /\ \A i \in DOMAIN v.rpc : v.rpc[i].offset = v.of[v.rpc[i].key]

\* C20 witness: two messages of a partition were accepted and the commit
\* that followed carried the offset of the second one.
C20_Witness ==
    \E c \in Consumers :
        /\ lastCommit[c] # <<>>
        /\ lastCommit[c][1].outcome = "ok"
        /\ Len(lastCommit[c][1].rpc) = 1
        /\ lastCommit[c][1].fired[1].committed = 2
        /\ lastCommit[c][1].rpc[1].offset = 1
        /\ lastCommit[c][1].of[lastCommit[c][1].rpc[1].key] = 1

\* The tasks of Group.Start that send on the result channel
Senders == WorkerTasks \cup {Watcher}

\* Sender t has sent its value
HasSent(t) ==
    IF t = Watcher THEN pc[t] = "done" ELSE pc[t] \in {"worker_done", "done"}

\* Group.Start has taken its one value from the result channel
TookOne ==
    /\ sent # <<>>
    /\ pc[GStart] \in {"stop_cancel", "stop_lock", "stop_wait", "done"}

\* C21: during one Group.Start with N workers at most N+1 values are sent
\* on the result channel of capacity N+1, each sender sends once, and no
\* sender blocks: the send of a worker whose Consumer.Start has returned
\* and the send of the watcher after the cancellation are always possible,
\* and so is the end of the worker task after its send, though Group.Start
\* takes one value only.
C21_SendersNeverBlock ==
    /\ Cardinality({t \in Senders : HasSent(t)}) <= NumWorkers + 1
    /\ pc[GStart] # "gstart_wait" /\ pc[GStart] # "gstart_check" /\ sent # <<>> =>
          Len(retval) + (IF TookOne THEN 1 ELSE 0)
              = Cardinality({t \in Senders : HasSent(t)})
    /\ Len(retval) <= NumWorkers + 1
    /\ \A t \in WorkerTasks :
          /\ pc[t] = "worker_send" => ENABLED WorkerSend(t)
          /\ pc[t] = "worker_done" => ENABLED WorkerDone(t)
    /\ (pc[Watcher] = "watch_wait" /\ gctxDone) => ENABLED WatcherSend(Watcher)

\* C21 witness: every worker and the watcher have sent, Group.Start has
\* returned with the one value it took, the other N values are left in the
\* channel and every worker task has ended.
C21_Witness ==
    /\ pc[GStart] = "done"
    /\ \A t \in Senders : pc[t] = "done"
    /\ Len(retval) = NumWorkers
    /\ sent # <<>>

\* Timer task tm makes a call of the reader in this step
TimerCallsReader(tm) ==
    /\ pc[tm] \in {"timer_resume", "timer_probe"}
    /\ SleepCalls(tgt[tm], tm[2])' # SleepCalls(tgt[tm], tm[2])

\* C22: the timer task of Sleep never calls Resume or GetMetadata on the
\* reader after the event loop has called reader.Close.
C22_NoTimerCallAfterClose ==
    [][\A tm \in Timers :
          TimerCallsReader(tm) => closeCount[tgt[tm]] = 0]_vars

\* Group.Start has returned from its check of g.ctx.Done(), before the
\* watcher and the workers are launched
ReturnedAtCheck == pc[GStart] = "done" /\ pc[Watcher] = "off"

\* C23: Group.Start called after Group.Stop has cancelled the group context
\* launches no worker task and returns the non-nil error "consumers group
\* already closed".
C23_StartAfterStopFails ==
    ReturnedAtCheck =>
        /\ \A w \in WorkerTasks : pc[w] = "off"
        /\ gret = "errGroupClosed"

=============================================================================
